---- MODULE Spec2Model ----
(***************************************************************************)
(* Model of the AI routes of Rastro_app.py: the IAInvestigation helper     *)
(* (the known-identity cache and its recognise / add operations), the      *)
(* seven /ia/* route handlers, and the shared upload folder.               *)
(*                                                                         *)
(* Face embeddings are points on a line, in thousandths; the distance of   *)
(* two embeddings is the absolute difference.  An image is the sequence of *)
(* the embeddings of the faces it shows, plus its pixel mode.              *)
(***************************************************************************)
EXTENDS Integers, Sequences, FiniteSets, TLC

VARIABLES
  known_faces,    \* ia_system.known_faces: insertion-ordered dict, a sequence of [id, enc]
  known_dir,      \* files of KNOWN_FACES_FOLDER: stem -> image (NoFile when absent)
  uploads,        \* files of UPLOAD_FOLDER: filename -> image (NoFile when absent)
  models_loaded,  \* nlp_ner, sentiment_analyzer and qa_pipeline are not None
  api_key_set,    \* OPENAI_API_KEY is configured
  request,        \* the request handled last
  response,       \* the answer given to it
  helper,         \* the IAInvestigation method that request reached, and how it ended
  calls,          \* the external models that request invoked
  inflight        \* upload requests being handled at the same time (SpecConc)

vars == <<known_faces, known_dir, uploads, models_loaded, api_key_set,
          request, response, helper, calls, inflight>>

----------------------------------------------------------------------------
(* Inputs *)

One == 1000
Tolerance == 600
NumSlots == 2
MaxFaces == 2

PersonIds == {"p1", "p2"}
FileNames == {"a.jpg", "b.jpg"}

NoFile  == [faces |-> <<>>, mode |-> "none"]
Corrupt == [faces |-> <<>>, mode |-> "corrupt"]
ImgNoFace == [faces |-> <<>>, mode |-> "RGB"]
ImgA      == [faces |-> <<0>>, mode |-> "RGB"]
ImgB      == [faces |-> <<253>>, mode |-> "RGBA"]
FacePoints == <<1300, 600, 253, 0>>
ImgC      == [faces |-> SubSeq(FacePoints, 1, MaxFaces), mode |-> "RGB"]
Images == {ImgNoFace, ImgA, ImgB, ImgC, Corrupt}

FieldShapes == {"absent", "empty", "value"}
BodyShapes  == {"none", "array", "object"}
Outcomes    == {"ok", "raise"}

----------------------------------------------------------------------------
(* Files *)

upload_path_shared(filename) == "a.jpg"

\* os.path.join(UPLOAD_FOLDER, file.filename)
upload_path(filename) == filename

file_save(fs, filename, image) == [fs EXCEPT ![filename] = image]

os_remove_keep(fs, filename) == fs

os_remove(fs, filename) == [fs EXCEPT ![filename] = NoFile]

\* face_recognition.load_image_file / Image.open on a path
Readable(image) == image.mode \notin {"none", "corrupt"}

\* Image.save(<person_id>.jpg): JPEG has no alpha channel
JpegWritable(image) == image.mode = "RGB"

ToJpeg(image) == [faces |-> image.faces, mode |-> "RGB"]

----------------------------------------------------------------------------
(* The known-identity dict *)

Keys(kf) == {kf[i].id : i \in DOMAIN kf}

Values(kf) == [i \in DOMAIN kf |-> kf[i].enc]

dict_set_first_wins(kf, k, v) ==
  IF k \in Keys(kf) THEN kf ELSE Append(kf, [id |-> k, enc |-> v])

dict_set_reset(kf, k, v) == <<[id |-> k, enc |-> v]>>

dict_set(kf, k, v) ==
  IF k \in Keys(kf)
    THEN [i \in DOMAIN kf |-> IF kf[i].id = k THEN [id |-> k, enc |-> v] ELSE kf[i]]
    ELSE Append(kf, [id |-> k, enc |-> v])

Lookup(kf, k) == kf[CHOOSE i \in DOMAIN kf : kf[i].id = k].enc

RECURSIVE load_known_faces(_, _)
load_known_faces(dir, listing) ==
  IF listing = <<>> THEN <<>>
  ELSE LET rest == load_known_faces(dir, SubSeq(listing, 1, Len(listing) - 1))
           stem == listing[Len(listing)]
           encodings == dir[stem].faces
       IN IF dir[stem] # NoFile /\ encodings # <<>>
            THEN dict_set(rest, stem, encodings[1])
            ELSE rest

----------------------------------------------------------------------------
(* recognize_faces *)

Abs(x) == IF x < 0 THEN -x ELSE x

face_distance(encs, e) == [i \in DOMAIN encs |-> Abs(encs[i] - e)]

compare_faces(encs, e) == [i \in DOMAIN encs |-> Abs(encs[i] - e) <= Tolerance]

\* np.argmin: the first index of the least element (raises on an empty array)
argmax(ds) ==
  CHOOSE i \in DOMAIN ds :
    /\ \A j \in DOMAIN ds : ds[i] >= ds[j]
    /\ \A j \in DOMAIN ds : j < i => ds[j] < ds[i]

argmin(ds) ==
  CHOOSE i \in DOMAIN ds :
    /\ \A j \in DOMAIN ds : ds[i] <= ds[j]
    /\ \A j \in DOMAIN ds : j < i => ds[j] > ds[i]

\* round(x, 2) of a value in thousandths
Round2(x) ==
  LET q == x \div 10
      r == x % 10
  IN IF r < 5 THEN q * 10
     ELSE IF r > 5 THEN (q + 1) * 10
     ELSE IF q % 2 = 0 THEN q * 10 ELSE (q + 1) * 10

MatchFace(kf, e, i) ==
  LET matches == compare_faces(Values(kf), e)
      face_distances == face_distance(Values(kf), e)
      best_match_index == argmin(face_distances)
  IN IF matches[best_match_index]
       THEN [location |-> i, name |-> kf[best_match_index].id,
             confidence |-> Round2(One - face_distances[best_match_index])]
       ELSE [location |-> i, name |-> "Desconhecido", confidence |-> 0]

\* the value returned, and whether the except branch produced it
recognize_faces(kf, image) ==
  IF ~Readable(image) THEN [raised |-> TRUE, recognized |-> <<>>]
  ELSE IF image.faces = <<>> THEN [raised |-> FALSE, recognized |-> <<>>]
  ELSE IF kf = <<>> THEN [raised |-> TRUE, recognized |-> <<>>]
  ELSE [raised |-> FALSE,
        recognized |-> [i \in DOMAIN image.faces |-> MatchFace(kf, image.faces[i], i)]]

----------------------------------------------------------------------------
(* add_known_face: first is the file as load_image_file reads it, second   *)
(* the file as Image.open reads it for the copy                            *)

\* lines 97-100: decode, extract, store the first embedding under person_id
add_encode(kf, first, person_id) ==
  IF Readable(first) /\ first.faces # <<>>
    THEN dict_set(kf, person_id, first.faces[1])
    ELSE kf

\* lines 102-104: reopen the upload and save it as <person_id>.jpg
add_copy(dir, second, person_id) ==
  IF Readable(second) /\ JpegWritable(second)
    THEN [ok |-> TRUE, dir |-> [dir EXCEPT ![person_id] = ToJpeg(second)]]
    ELSE [ok |-> FALSE, dir |-> dir]

add_known_face(kf, dir, first, second, person_id) ==
  IF ~Readable(first) THEN [ok |-> FALSE, raised |-> TRUE, kf |-> kf, dir |-> dir]
  ELSE IF first.faces = <<>> THEN [ok |-> FALSE, raised |-> FALSE, kf |-> kf, dir |-> dir]
  ELSE LET copy == add_copy(dir, second, person_id)
       IN [ok |-> copy.ok, raised |-> ~copy.ok,
           kf |-> add_encode(kf, first, person_id), dir |-> copy.dir]

----------------------------------------------------------------------------
(* The JSON helpers.  Each returns the shape of its result, whether the    *)
(* result is the {"error": ...} dict, and the external models it invoked.  *)

HelperResult(shape, failed, invoked) ==
  [results |-> IF failed THEN "error_dict" ELSE shape, failed |-> failed, invoked |-> invoked]

\* pipelines: which call raises, if any
analyze_text(loaded, text, pipelines) ==
  IF ~loaded THEN HelperResult("analysis", TRUE, {})
  ELSE IF pipelines = "nlp_ner" THEN HelperResult("analysis", TRUE, {"nlp_ner"})
  ELSE HelperResult("analysis", pipelines = "sentiment_analyzer",
                    {"nlp_ner", "sentiment_analyzer"})

answer_question(loaded, context, question, qa) ==
  IF ~loaded THEN HelperResult("answer", TRUE, {})
  ELSE HelperResult("answer", qa = "raise", {"qa_pipeline"})

generate_investigation_hypotheses(key_set, evidence, completion) ==
  IF ~key_set THEN HelperResult("text", TRUE, {})
  ELSE HelperResult("text", completion = "raise", {"openai"})

\* the np.zeros call of line 242 is malformed (an unclosed parenthesis): the body
\* never gets past it, and the helper is modelled as failing there
correlate_entities(entities_list) == HelperResult("clusters", TRUE, {})

\* walk: "raise" when social_data is no dict of dicts with lists of dicts
analyze_social_connections(social_data, walk) ==
  HelperResult("connections", walk = "raise", {})

----------------------------------------------------------------------------
(* Requests and responses *)

NoRequest == [route |-> "none", has_file |-> FALSE, filename |-> "", image |-> NoFile,
              person_id |-> "", body |-> "none", field |-> "absent", field2 |-> "absent"]

UploadRequest(route, has_file, filename, image, person_id) ==
  [NoRequest EXCEPT !.route = route, !.has_file = has_file, !.filename = filename,
                    !.image = image, !.person_id = person_id]

JsonRequest(route, body, field, field2) ==
  [NoRequest EXCEPT !.route = route, !.body = body, !.field = field, !.field2 = field2]

NoResponse == [kind |-> "none", http |-> 0, status |-> "", message |-> "",
               results |-> "none", faces |-> <<>>]

ErrorEnvelope(http, message) ==
  [kind |-> "json", http |-> http, status |-> "error", message |-> message,
   results |-> "none", faces |-> <<>>]

SuccessEnvelope(results, faces, message) ==
  [kind |-> "json", http |-> 200, status |-> "success", message |-> message,
   results |-> results, faces |-> faces]

\* data.get on None or on a list: AttributeError, answered by the server as a 500
Unhandled == [kind |-> "exception", http |-> 500, status |-> "", message |-> "",
              results |-> "none", faces |-> <<>>]

\* request.json without a JSON body: None, or (newer Flask) a 415 raised by the getter
UnsupportedMedia == [kind |-> "http_error", http |-> 415, status |-> "", message |-> "",
                     results |-> "none", faces |-> <<>>]

NotCalled == [name |-> "none", outcome |-> "not_called"]

Called(name, failed) == [name |-> name, outcome |-> IF failed THEN "failed" ELSE "returned"]

Falsy_absent_only(field) == field = "absent"

\* data.get(name, default) followed by "if not value"
Falsy(field) == field \in {"absent", "empty"}

Answer(req, resp, h, invoked) ==
  /\ request' = req
  /\ response' = resp
  /\ helper' = h
  /\ calls' = invoked

\* a JSON route up to its validation: the answers given before the helper is reached
JsonRejected(req, missing, message) ==
  \/ /\ req.body = "none"
     /\ \E r \in {Unhandled, UnsupportedMedia} : Answer(req, r, NotCalled, {})
  \/ /\ req.body = "array"
     /\ Answer(req, Unhandled, NotCalled, {})
  \/ /\ req.body = "object"
     /\ missing
     /\ Answer(req, ErrorEnvelope(400, message), NotCalled, {})

JsonAnswered(req, name, r) ==
  Answer(req, SuccessEnvelope(r.results, <<>>, ""), Called(name, r.failed), r.invoked)

JsonInputs(body, field, field2) ==
  /\ body \in BodyShapes
  /\ field \in FieldShapes
  /\ field2 \in FieldShapes
  /\ body # "object" => field = "absent" /\ field2 = "absent"

\* a multipart request: the file part, if any, has a name (maybe empty) and a content
UploadInputs(has_file, filename, image) ==
  /\ has_file <=> image # NoFile
  /\ ~has_file => filename = ""
  /\ filename = "" /\ has_file => image = ImgA

----------------------------------------------------------------------------
(* Routes, one request at a time *)

Cache == <<known_faces, known_dir>>
Config == <<models_loaded, api_key_set>>

ia_recognize_faces ==
  \E has_file \in BOOLEAN, filename \in FileNames \cup {""}, image \in Images \cup {NoFile} :
    LET req == UploadRequest("recognize_faces", has_file, filename, image, "") IN
    /\ UploadInputs(has_file, filename, image)
    /\ IF ~has_file
         THEN /\ Answer(req, ErrorEnvelope(200, "Nenhum arquivo enviado"), NotCalled, {})
              /\ UNCHANGED uploads
       ELSE IF filename = ""
         THEN /\ Answer(req, ErrorEnvelope(200, "Nome de arquivo vazio"), NotCalled, {})
              /\ UNCHANGED uploads
       ELSE LET file_path == upload_path(filename)
                saved == file_save(uploads, file_path, image)
                r == recognize_faces(known_faces, saved[file_path])
            IN /\ Answer(req, SuccessEnvelope("faces", r.recognized, ""),
                         Called("recognize_faces", r.raised), {"face_recognition"})
               /\ uploads' = os_remove(saved, file_path)
    /\ UNCHANGED <<Cache, Config, inflight>>

ia_add_known_face ==
  \E has_file \in BOOLEAN, filename \in FileNames \cup {""}, image \in Images \cup {NoFile},
     person_id \in PersonIds \cup {""} :
    LET req == UploadRequest("add_known_face", has_file, filename, image, person_id) IN
    /\ UploadInputs(has_file, filename, image)
    /\ IF ~has_file
         THEN /\ Answer(req, ErrorEnvelope(200, "Nenhum arquivo enviado"), NotCalled, {})
              /\ UNCHANGED <<uploads, Cache>>
       ELSE IF person_id = ""
         THEN /\ Answer(req, ErrorEnvelope(200, "ID da pessoa nao fornecido"), NotCalled, {})
              /\ UNCHANGED <<uploads, Cache>>
       ELSE IF filename = ""
         THEN /\ Answer(req, ErrorEnvelope(200, "Nome de arquivo vazio"), NotCalled, {})
              /\ UNCHANGED <<uploads, Cache>>
       ELSE LET file_path == upload_path(filename)
                saved == file_save(uploads, file_path, image)
                r == add_known_face(known_faces, known_dir, saved[file_path],
                                    saved[file_path], person_id)
            IN /\ known_faces' = r.kf
               /\ known_dir' = r.dir
               /\ uploads' = os_remove(saved, file_path)
               /\ Answer(req,
                         IF r.ok THEN SuccessEnvelope("none", <<>>, "Rosto adicionado com sucesso")
                                 ELSE ErrorEnvelope(200, "Nao foi possivel adicionar o rosto"),
                         Called("add_known_face", ~r.ok), {"face_recognition"})
    /\ UNCHANGED <<Config, inflight>>

ia_analyze_text ==
  /\ \/ \E body \in BodyShapes, text \in FieldShapes :
          /\ JsonInputs(body, text, "absent")
          /\ JsonRejected(JsonRequest("analyze_text", body, text, "absent"),
                          Falsy(text), "Texto vazio")
     \/ \E text \in FieldShapes, pipelines \in {"none", "nlp_ner", "sentiment_analyzer"} :
          /\ ~Falsy(text)
          /\ JsonAnswered(JsonRequest("analyze_text", "object", text, "absent"),
                          "analyze_text", analyze_text(models_loaded, text, pipelines))
  /\ UNCHANGED <<Cache, Config, uploads, inflight>>

ia_generate_hypotheses ==
  /\ \/ \E body \in BodyShapes, evidence \in FieldShapes :
          /\ JsonInputs(body, evidence, "absent")
          /\ JsonRejected(JsonRequest("generate_hypotheses", body, evidence, "absent"),
                          Falsy(evidence), "Nenhuma evidencia fornecida")
     \/ \E evidence \in FieldShapes, completion \in Outcomes :
          /\ ~Falsy(evidence)
          /\ JsonAnswered(JsonRequest("generate_hypotheses", "object", evidence, "absent"),
                          "generate_investigation_hypotheses",
                          generate_investigation_hypotheses(api_key_set, evidence, completion))
  /\ UNCHANGED <<Cache, Config, uploads, inflight>>

ia_answer_question ==
  /\ \/ \E body \in BodyShapes, context \in FieldShapes, question \in FieldShapes :
          /\ JsonInputs(body, context, question)
          /\ JsonRejected(JsonRequest("answer_question", body, context, question),
                          Falsy(context) \/ Falsy(question), "Contexto ou pergunta ausentes")
     \/ \E context \in FieldShapes, question \in FieldShapes, qa \in Outcomes :
          /\ ~(Falsy(context) \/ Falsy(question))
          /\ JsonAnswered(JsonRequest("answer_question", "object", context, question),
                          "answer_question",
                          answer_question(models_loaded, context, question, qa))
  /\ UNCHANGED <<Cache, Config, uploads, inflight>>

ia_correlate_entities ==
  /\ \/ \E body \in BodyShapes, entities_list \in FieldShapes :
          /\ JsonInputs(body, entities_list, "absent")
          /\ JsonRejected(JsonRequest("correlate_entities", body, entities_list, "absent"),
                          Falsy(entities_list), "Lista de entidades vazia")
     \/ \E entities_list \in FieldShapes :
          /\ ~Falsy(entities_list)
          /\ JsonAnswered(JsonRequest("correlate_entities", "object", entities_list, "absent"),
                          "correlate_entities", correlate_entities(entities_list))
  /\ UNCHANGED <<Cache, Config, uploads, inflight>>

ia_analyze_social_connections ==
  /\ \/ \E body \in BodyShapes, social_data \in FieldShapes :
          /\ JsonInputs(body, social_data, "absent")
          /\ JsonRejected(JsonRequest("analyze_social_connections", body, social_data, "absent"),
                          Falsy(social_data), "Dados sociais ausentes")
     \/ \E social_data \in FieldShapes, walk \in Outcomes :
          /\ ~Falsy(social_data)
          /\ JsonAnswered(JsonRequest("analyze_social_connections", "object", social_data,
                                      "absent"),
                          "analyze_social_connections",
                          analyze_social_connections(social_data, walk))
  /\ UNCHANGED <<Cache, Config, uploads, inflight>>

----------------------------------------------------------------------------
(* Upload requests handled at the same time (the development server is     *)
(* threaded): each goes through its handler's file steps one at a time.    *)

Slots == 1..NumSlots

Idle == [pc |-> "idle", route |-> "none", filename |-> "", image |-> NoFile,
         person_id |-> "", first |-> NoFile, interfered |-> FALSE]

ConcImages == {ImgA, ImgC}
ConcPersonIds == {"p1"}

\* a request that has answered: its locals are dead, the path it used and what
\* happened to its file are kept
Answered(me) == [Idle EXCEPT !.pc = "done", !.filename = me.filename,
                             !.interfered = me.interfered]

OthersUnchanged == UNCHANGED <<Config, request, response, helper, calls>>

\* validation passed; file.save(file_path)
c_save(s) ==
  /\ inflight[s].pc = "idle"
  /\ \E route \in {"recognize_faces", "add_known_face"}, filename \in FileNames,
        image \in ConcImages, person_id \in ConcPersonIds \cup {""} :
       /\ (route = "recognize_faces") <=> (person_id = "")
       /\ uploads' = file_save(uploads, upload_path(filename), image)
       /\ inflight' = [inflight EXCEPT ![s] =
            [Idle EXCEPT !.pc = "saved", !.route = route, !.filename = filename,
                         !.image = image, !.person_id = person_id]]
  /\ UNCHANGED Cache
  /\ OthersUnchanged

\* ia_system.recognize_faces(file_path): the one read of the file
c_recognize(s) ==
  LET me == inflight[s]
      read == uploads[upload_path(me.filename)]
  IN /\ me.pc = "saved"
     /\ me.route = "recognize_faces"
     /\ inflight' = [inflight EXCEPT ![s].pc = "analyzed", ![s].first = read,
                                      ![s].interfered = (read # me.image)]
     /\ UNCHANGED <<Cache, uploads>>
     /\ OthersUnchanged

\* add_known_face, lines 97-100
c_encode(s) ==
  LET me == inflight[s]
      read == uploads[upload_path(me.filename)]
  IN /\ me.pc = "saved"
     /\ me.route = "add_known_face"
     /\ known_faces' = add_encode(known_faces, read, me.person_id)
     /\ inflight' = [inflight EXCEPT ![s].pc = "encoded", ![s].first = read,
                                      ![s].interfered = (read # me.image)]
     /\ UNCHANGED <<known_dir, uploads>>
     /\ OthersUnchanged

\* add_known_face, lines 102-104: skipped when no face was found
c_copy(s) ==
  LET me == inflight[s]
      read == uploads[upload_path(me.filename)]
      found == Readable(me.first) /\ me.first.faces # <<>>
  IN /\ me.pc = "encoded"
     /\ known_dir' = IF found THEN add_copy(known_dir, read, me.person_id).dir ELSE known_dir
     /\ inflight' = [inflight EXCEPT ![s].pc = "analyzed",
                                      ![s].interfered = me.interfered \/ (found /\ read # me.image)]
     /\ UNCHANGED <<known_faces, uploads>>
     /\ OthersUnchanged

\* os.remove(file_path), failure logged
c_remove(s) ==
  /\ inflight[s].pc = "analyzed"
  /\ uploads' = os_remove(uploads, upload_path(inflight[s].filename))
  /\ inflight' = [inflight EXCEPT ![s] = Answered(inflight[s])]
  /\ UNCHANGED Cache
  /\ OthersUnchanged

\* the requests in flight have all been answered
c_drain ==
  /\ \A s \in Slots : inflight[s].pc \in {"idle", "done"}
  /\ \E s \in Slots : inflight[s].pc = "done"
  /\ inflight' = [s \in Slots |-> Idle]
  /\ UNCHANGED <<Cache, uploads>>
  /\ OthersUnchanged

----------------------------------------------------------------------------
(* Construction: the models are loaded or not, the folder is scanned in    *)
(* the order os.listdir gives                                              *)

Listings ==
  {l \in [1..Cardinality(PersonIds) -> PersonIds] : \A i, j \in DOMAIN l : i # j => l[i] # l[j]}

Init ==
  /\ known_dir \in [PersonIds -> {NoFile, ImgNoFace, ImgA}]
  /\ \E listing \in Listings : known_faces = load_known_faces(known_dir, listing)
  /\ uploads = [f \in FileNames |-> NoFile]
  /\ models_loaded \in BOOLEAN
  /\ api_key_set \in BOOLEAN
  /\ request = NoRequest
  /\ response = NoResponse
  /\ helper = NotCalled
  /\ calls = {}
  /\ inflight = [s \in Slots |-> Idle]

Next ==
  \/ ia_recognize_faces
  \/ ia_add_known_face
  \/ ia_analyze_text
  \/ ia_generate_hypotheses
  \/ ia_answer_question
  \/ ia_correlate_entities
  \/ ia_analyze_social_connections

Spec == Init /\ [][Next]_vars

\* the upload routes read neither the models nor the API key; the folder starts empty
InitConc ==
  /\ Init
  /\ models_loaded
  /\ api_key_set
  /\ known_dir = [p \in PersonIds |-> NoFile]

NextConc ==
  \/ \E s \in Slots : c_save(s)
  \/ \E s \in Slots : c_recognize(s)
  \/ \E s \in Slots : c_encode(s)
  \/ \E s \in Slots : c_copy(s)
  \/ \E s \in Slots : c_remove(s)
  \/ c_drain

SpecConc == InitConc /\ [][NextConc]_vars

----------------------------------------------------------------------------
(* Properties *)

UploadRoutes == {"recognize_faces", "add_known_face"}

IsAdd(req, h) == req.route = "add_known_face" /\ h.name = "add_known_face"

FaceFound(image) == Readable(image) /\ image.faces # <<>>

HasErrorPayload(resp) == resp.status = "error" \/ resp.results = "error_dict"

\* C1: whenever the helper call of a route fails, the response carries an error
\* status or an error message; it is never an ordinary successful result.
C1_FailedCallCarriesError ==
  helper.outcome = "failed" => response.kind = "json" /\ HasErrorPayload(response)

RequiredAbsent(req) ==
  \/ req.route \in UploadRoutes /\ ~req.has_file
  \/ req.route = "add_known_face" /\ req.person_id = ""
  \/ req.route \notin UploadRoutes \cup {"none"} /\
       \/ req.body # "object"
       \/ req.field = "absent"
       \/ req.route = "answer_question" /\ req.field2 = "absent"

\* C2: a request in which a required field is absent (a request with no JSON
\* object body included) is answered with {status: "error", message: ...}; the
\* handler never ends in an unhandled exception.
C2_AbsentFieldYieldsEnvelope ==
  RequiredAbsent(request) =>
    response.kind = "json" /\ response.status = "error" /\ response.message # ""

\* C3: an analyze_text request whose text is the empty string is rejected with
\* status "error" and HTTP 400 before IAInvestigation.analyze_text is invoked: no
\* model is called and no application state changes.
C3_EmptyTextRejected ==
  [][(request'.route = "analyze_text" /\ request'.body = "object" /\ request'.field = "empty")
       => /\ response' = ErrorEnvelope(400, "Texto vazio")
          /\ helper' = NotCalled
          /\ calls' = {}
          /\ UNCHANGED <<known_faces, known_dir, uploads, models_loaded, api_key_set>>]_vars

C3_Witness ==
  /\ request.route = "analyze_text" /\ request.body = "object" /\ request.field = "empty"
  /\ response.http = 400
  /\ models_loaded
  /\ known_faces # <<>>

\* what C4 says of one detected face e: the identifier at minimum distance when
\* that distance is within the tolerance (the confidence as reported, to two
\* decimals), "Desconhecido" with confidence 0 otherwise
NearestAnswer(kf, e, result) ==
  LET within == {i \in DOMAIN kf : Abs(kf[i].enc - e) <= Tolerance}
      nearest == {i \in DOMAIN kf : \A j \in DOMAIN kf : Abs(kf[i].enc - e) <= Abs(kf[j].enc - e)}
  IN IF nearest \cap within # {}
       THEN \E i \in nearest : /\ result.name = kf[i].id
                               /\ result.confidence = Round2(One - Abs(kf[i].enc - e))
       ELSE result.name = "Desconhecido" /\ result.confidence = 0

\* C4: recognize_faces returns exactly one result per face detected in the
\* uploaded image, for every state of the known-identity cache (the empty cache
\* included): the nearest cached identifier when within the match threshold, with
\* confidence 1 - distance, and "Desconhecido" with confidence 0 otherwise.
C4_OneResultPerFace ==
  (request.route = "recognize_faces" /\ helper.name = "recognize_faces") =>
    /\ Len(response.faces) = Len(request.image.faces)
    /\ \A i \in DOMAIN response.faces :
         NearestAnswer(known_faces, request.image.faces[i], response.faces[i])

\* re-submitting image for recognition names a known identifier for its first
\* face, with confidence at least 1 - tolerance
Recognized(kf, image) ==
  LET r == recognize_faces(kf, image).recognized
  IN /\ r # <<>>
     /\ r[1].name # "Desconhecido"
     /\ r[1].confidence >= One - Tolerance

\* C5 as stated: once an image has been registered successfully, it is recognised
\* after any later sequence of add and recognize requests (here: after one more
\* request, whatever it is).
C5_RegisteredStaysRecognized ==
  [][(IsAdd(request, helper) /\ response.status = "success")
       => Recognized(known_faces', request.image)]_vars

\* C5 amended: a successful add stores the image's embedding under its identifier,
\* and as long as that embedding is stored in the mapping (no later add found a
\* face under the same identifier and replaced it), re-submitting the image yields
\* a known identifier with confidence at least 1 - tolerance.
C5_StoredImageRecognized ==
  /\ (IsAdd(request, helper) /\ response.status = "success")
       => /\ request.person_id \in Keys(known_faces)
          /\ Lookup(known_faces, request.person_id) = request.image.faces[1]
  /\ \A image \in Images :
       (FaceFound(image) /\ \E i \in DOMAIN known_faces : known_faces[i].enc = image.faces[1])
         => Recognized(known_faces, image)

C5_Witness ==
  /\ request.route = "recognize_faces"
  /\ request.image = ImgC
  /\ response.faces # <<>>
  /\ response.faces[1].name \in PersonIds
  /\ response.faces[1].confidence >= One - Tolerance
  /\ known_dir[response.faces[1].name] = ToJpeg(ImgC)
  /\ Len(known_faces) = 2

\* C6: the set of identifiers in known_faces never loses an element, and only
\* add_known_face changes the mapping; every other operation leaves it unchanged.
C6_NoDeletionPath ==
  [][/\ Keys(known_faces) \subseteq Keys(known_faces')
     /\ known_faces' # known_faces => IsAdd(request', helper')]_vars

C6_Witness ==
  /\ IsAdd(request, helper)
  /\ response.status = "success"
  /\ known_dir[request.person_id] = ToJpeg(ImgC)
  /\ Keys(known_faces) = PersonIds

\* C7: identifiers are unique and the last write wins: an add in which a face was
\* found leaves its embedding under person_id, an add in which none was found
\* leaves the mapping as it was, and no add changes the embedding stored under
\* another identifier.
C7_LastWriteWins ==
  [][IsAdd(request', helper') =>
       /\ Cardinality(Keys(known_faces')) = Len(known_faces')
       /\ FaceFound(request'.image) =>
            /\ request'.person_id \in Keys(known_faces')
            /\ Lookup(known_faces', request'.person_id) = request'.image.faces[1]
       /\ ~FaceFound(request'.image) => known_faces' = known_faces
       /\ \A k \in Keys(known_faces) \ {request'.person_id} :
            k \in Keys(known_faces') /\ Lookup(known_faces', k) = Lookup(known_faces, k)]_vars

\* an add under the identifier inserted first, the other entry as it was loaded
C7_Witness ==
  /\ IsAdd(request, helper)
  /\ request.image = ImgC
  /\ Len(known_faces) = 2
  /\ known_faces[1] = [id |-> request.person_id, enc |-> ImgC.faces[1]]
  /\ known_faces[2].enc = ImgA.faces[1]
  /\ known_dir[known_faces[2].id] = ImgA

\* C8: with requests handled one at a time, the file an upload route saved under
\* UPLOAD_FOLDER is gone once the request has been answered, whether the helper
\* succeeded or failed: the folder is empty between requests.
C8_UploadsRemoved == \A f \in FileNames : uploads[f] = NoFile

C8_Witness ==
  /\ request.route \in UploadRoutes
  /\ request.filename # ""
  /\ helper.outcome = "failed"
  /\ \A f \in FileNames : uploads[f] = NoFile

\* C9: a request whose helper read something else than the file it uploaded
\* (another request's content, or no file at all) shares its upload filename with
\* another request in flight; requests with different filenames never interfere.
C9_OnlySameNameInterferes ==
  \A s \in Slots :
    inflight[s].interfered =>
      \E t \in Slots \ {s} : inflight[t].pc # "idle" /\ inflight[t].filename = inflight[s].filename

\* both outcomes of the race: s read what t uploaded and removed the file, and t
\* then found its file gone
C9_Witness ==
  \E s, t \in Slots :
    /\ s # t
    /\ inflight[s].pc = "done" /\ inflight[s].interfered
    /\ inflight[t].pc \in {"analyzed", "encoded"} /\ inflight[t].interfered
    /\ inflight[t].first = NoFile
    /\ inflight[t].filename = inflight[s].filename

\* C10: add_known_face is all-or-nothing: when it returns False (status "error")
\* known_faces is what it was before the call; the entry for person_id is written
\* only by calls that return True, which have also persisted <person_id>.jpg.
C10_AddAllOrNothing ==
  [][IsAdd(request', helper') =>
       /\ response'.status = "error" => known_faces' = known_faces
       /\ response'.status = "success" =>
            /\ Lookup(known_faces', request'.person_id) = request'.image.faces[1]
            /\ known_dir'[request'.person_id] = ToJpeg(request'.image)]_vars

====
